---- MODULE Spec2Model ----
(***************************************************************************)
(* Model of the two release utilities of the Colota monorepo:              *)
(*   scripts/bump-version.py      (specification Spec)                     *)
(*   scripts/sync-screenshots.py  (specification SyncSpec)                 *)
(*                                                                         *)
(* Text is modelled as sequences of one-character strings.  A manifest     *)
(* (package.json) is a sequence of lines, each line a leading whitespace   *)
(* run followed by JSON tokens; build.gradle is a sequence of segments,    *)
(* each a `versionName "..."` literal, a `versionCode N` literal or other  *)
(* text.  The file system is a map from the fixed paths to file records.   *)
(***************************************************************************)
EXTENDS Integers, Sequences, FiniteSets, TLC

VARIABLES
    \* ---- bump-version.py ----
    argv,        \* sys.argv[1:], a sequence of strings
    pc,          \* position of main(): "start", "packages", "gradle", "exited"
    idx,         \* index into PACKAGE_FILES of the loop at line 106
    pkgFiles,    \* the four manifests on disk, by position in PACKAGE_FILES
    gradleFile,  \* apps/mobile/android/app/build.gradle on disk
    exitCode,    \* process exit status, -1 while running
    err,         \* what ended the process: "none", "usage", "format", or the exception
    out,         \* what was printed about files: <<kind, file, ...>> entries in order
    reads,       \* the files read_text() was called on during this run
    pkg0,        \* history: pkgFiles when the current run started
    gradle0,     \* history: gradleFile when the current run started
    gradleInit,  \* history: gradleFile before the first run
    runs,        \* history: number of invocations so far
    bumps,       \* history: number of runs that ended with exit code 0
    \* ---- sync-screenshots.py ----
    spc,         \* position of main(): "check", "docs", "store", "exited"
    srcDir,      \* screenshots/mobile/original
    docsDir,     \* apps/docs/static/img/screenshots
    storeDir,    \* .../fastlane/metadata/android/en-US/images/phoneScreenshots
    sExit,       \* exit status of the sync process, -1 while running
    sOut,        \* printed lines of the sync run, in order
    count,       \* the `count` local of main()
    sRuns,       \* history: number of sync invocations so far
    docs0,       \* history: docsDir when the current run started
    store0       \* history: storeDir when the current run started

bumpVars == <<argv, pc, idx, pkgFiles, gradleFile, exitCode, err, out, reads,
              pkg0, gradle0, gradleInit, runs, bumps>>
syncVars == <<spc, srcDir, docsDir, storeDir, sExit, sOut, count, sRuns, docs0, store0>>
vars == <<bumpVars, syncVars>>

(***************************************************************************)
(* Bounds                                                                  *)
(***************************************************************************)
MaxRuns == 2        \* invocations of bump-version.py in one behaviour
MaxSyncRuns == 2    \* invocations of sync-screenshots.py in one behaviour
MaxSrcFiles == 2    \* files present in the screenshot source directory

(***************************************************************************)
(* Generic helpers                                                         *)
(***************************************************************************)
Range(s) == {s[i] : i \in 1..Len(s)}

Digits == {"0", "1", "2", "3", "4", "5", "6", "7", "8", "9"}

(***************************************************************************)
(* bump-version.py: the version pattern, line 95                           *)
(*   re.match(r"^\d+\.\d+\.\d+$", version)                                 *)
(* Python's `$` matches at the end of the string and also just before a    *)
(* newline that ends the string.                                           *)
(***************************************************************************)
\* One step of the automaton of  \d+ \. \d+ \. \d+ ; state 6 is the dead state.
SemverStep(q, c) ==
    CASE q = 0 /\ c \in Digits -> 1
      [] q = 1 /\ c \in Digits -> 1
      [] q = 1 /\ c = "."      -> 2
      [] q = 2 /\ c \in Digits -> 3
      [] q = 3 /\ c \in Digits -> 3
      [] q = 3 /\ c = "."      -> 4
      [] q = 4 /\ c \in Digits -> 5
      [] q = 5 /\ c \in Digits -> 5
      [] OTHER                 -> 6

RECURSIVE SemverRun(_, _)
SemverRun(q, s) ==
    IF s = <<>> THEN q ELSE SemverRun(SemverStep(q, Head(s)), Tail(s))

\* `$`: end of string, or before a final newline
DollarEnd(s) ==
    IF Len(s) > 0 /\ s[Len(s)] = "\n" THEN {s, SubSeq(s, 1, Len(s) - 1)} ELSE {s}

SemverMatch(version) == \E body \in DollarEnd(version) : SemverRun(0, body) = 5

(***************************************************************************)
(* bump-version.py: manifests (package.json)                               *)
(*                                                                         *)
(* A manifest file is [exists, lines, nl]: its text is the lines joined by *)
(* "\n", followed by "\n" when nl.  A line is [lead, toks]: lead is the    *)
(* run of spaces and tabs the line starts with, toks the JSON tokens after *)
(* it.  A token is [t, k, v]: an opening brace, a closing brace, a member  *)
(* "k": v (v the raw text of a scalar), or a bare scalar.                  *)
(***************************************************************************)
SP == " "
TAB == "\t"

LBrace == [t |-> "{", k |-> "", v |-> <<>>]
RBrace == [t |-> "}", k |-> "", v |-> <<>>]
Member(k, v) == [t |-> "member", k |-> k, v |-> v]
Scalar(v) == [t |-> "scalar", k |-> "", v |-> v]

Line(lead, toks) == [lead |-> lead, toks |-> toks]

NoFile == [exists |-> FALSE, lines |-> <<>>, nl |-> FALSE]
TextFile(lines, nl) == [exists |-> TRUE, lines |-> lines, nl |-> nl]

\* A decoded JSON scalar: a Python str, a number, or true/false/null
Str(s) == [ty |-> "str", s |-> s]
Num(s) == [ty |-> "num", s |-> s]
Lit(s) == [ty |-> "lit", s |-> s]

QUOTE == "\""

\* the JSON escape of a string body: a newline is written \n
RECURSIVE Escape(_)
Escape(s) ==
    IF s = <<>> THEN <<>>
    ELSE (IF Head(s) = "\n" THEN <<"\\", "n">> ELSE <<Head(s)>>) \o Escape(Tail(s))

RECURSIVE Unescape(_)
Unescape(s) ==
    IF s = <<>> THEN <<>>
    ELSE IF Len(s) >= 2 /\ s[1] = "\\" /\ s[2] = "n"
         THEN <<"\n">> \o Unescape(SubSeq(s, 3, Len(s)))
         ELSE <<Head(s)>> \o Unescape(Tail(s))

\* json.loads of a scalar: the value a raw scalar text denotes.  A quoted
\* text is a str; 1e0 and 1.0 are the same float, whose repr is 1.0.
JsonDecode(raw) ==
    IF Len(raw) >= 2 /\ raw[1] = QUOTE
    THEN Str(Unescape(SubSeq(raw, 2, Len(raw) - 1)))
    ELSE IF raw[1] \in Digits
    THEN Num(IF raw = <<"1", "e", "0">> THEN <<"1", ".", "0">> ELSE raw)
    ELSE Lit(raw)

\* json.dumps of a scalar value: its canonical text
JsonEncode(val) ==
    IF val.ty = "str" THEN <<QUOTE>> \o Escape(val.s) \o <<QUOTE>> ELSE val.s

RECURSIVE Tokens(_)
Tokens(lines) ==
    IF lines = <<>> THEN <<>> ELSE Head(lines).toks \o Tokens(Tail(lines))

\* dict.__setitem__ on an insertion-ordered dict, a sequence of <<key, value>>
\* with distinct keys: an existing key keeps its position, a new key is appended.
DictSet(d, k, v) ==
    IF \E i \in 1..Len(d) : d[i][1] = k
    THEN [i \in 1..Len(d) |-> IF d[i][1] = k THEN <<k, v>> ELSE d[i]]
    ELSE Append(d, <<k, v>>)

DictHas(d, k) == \E i \in 1..Len(d) : d[i][1] = k
DictGet(d, k) == d[CHOOSE i \in 1..Len(d) : d[i][1] = k][2]

RECURSIVE BuildDict(_, _)
BuildDict(d, members) ==
    IF members = <<>> THEN d
    ELSE BuildDict(DictSet(d, Head(members).k, JsonDecode(Head(members).v)),
                   Tail(members))

\* json.loads(text), line 44: [kind, dict] with kind "object" (a dict),
\* "other" (valid JSON that is no object) or "error" (JSONDecodeError).
JsonLoads(file) ==
    LET toks == Tokens(file.lines)
        n == Len(toks)
    IN  IF n >= 2 /\ toks[1] = LBrace /\ toks[n] = RBrace
           /\ \A i \in 2..(n - 1) : toks[i].t = "member"
        THEN [kind |-> "object", dict |-> BuildDict(<<>>, SubSeq(toks, 2, n - 1))]
        ELSE IF n = 1 /\ toks[1].t = "scalar"
        THEN [kind |-> "other", dict |-> <<>>]
        ELSE [kind |-> "error", dict |-> <<>>]

\* re.search(r"^([ \t]+)", text, re.MULTILINE), lines 50-51: the leading
\* whitespace of the first line that has any, else two spaces.
DetectIndent(file) ==
    LET hits == {i \in 1..Len(file.lines) : Len(file.lines[i].lead) > 0}
    IN  IF hits = {} THEN <<SP, SP>>
        ELSE file.lines[CHOOSE i \in hits : \A j \in hits : i <= j].lead

Spaces(n) == [i \in 1..n |-> SP]

\* json.dumps(pkg, indent=indent_size) + "\n", line 54, for indent_size >= 1
\* and a non-empty dict of scalars: one member per line, indented by
\* indent_size spaces.
JsonDumps(d, indentSize) ==
    TextFile(<<Line(<<>>, <<LBrace>>)>>
             \o [i \in 1..Len(d) |->
                    Line(Spaces(indentSize), <<Member(d[i][1], JsonEncode(d[i][2]))>>)]
             \o <<Line(<<>>, <<RBrace>>)>>,
             TRUE)

\* a rewrite that serializes a fresh dict holding the version alone
RewriteManifestFresh(file, version) ==
    JsonDumps(<<(<<"version", Str(version)>>)>>, Len(DetectIndent(file)))

\* lines 43-54 for a file that parses to an object
RewriteManifest(file, version) ==
    LET pkg == DictSet(JsonLoads(file).dict, "version", Str(version))
        indent == DetectIndent(file)
        indent_size == Len(indent)
    IN  JsonDumps(pkg, indent_size)

(***************************************************************************)
(* bump-version.py: build.gradle                                           *)
(*                                                                         *)
(* The file is [exists, segs]; a segment [t, s, n] is a                    *)
(* `versionName "s"` literal (s non-empty, without a quote), a             *)
(* `versionCode n` literal, or other text s that holds neither.            *)
(***************************************************************************)
NameSeg(s) == [t |-> "versionName", s |-> s, n |-> 0]
CodeSeg(n) == [t |-> "versionCode", s |-> <<>>, n |-> n]
TextSeg(s) == [t |-> "text", s |-> s, n |-> 0]

NoGradle == [exists |-> FALSE, segs |-> <<>>]
GradleFile(segs) == [exists |-> TRUE, segs |-> segs]

\* r'versionName ".+?"' matches a literal whose body has no newline
\* (`.` does not match a newline; re.DOTALL is not set)
NameMatches(seg) == seg.t = "versionName" /\ Len(seg.s) >= 1 /\ "\n" \notin Range(seg.s)
\* r"versionCode \d+"
CodeMatches(seg) == seg.t = "versionCode"

\* the position of the first match of each pattern, 0 when there is none
FirstCodeIndex(segs) ==
    LET hits == {i \in 1..Len(segs) : CodeMatches(segs[i])}
    IN  IF hits = {} THEN 0 ELSE CHOOSE i \in hits : \A j \in hits : i <= j
FirstNameIndex(segs) ==
    LET hits == {i \in 1..Len(segs) : NameMatches(segs[i])}
    IN  IF hits = {} THEN 0 ELSE CHOOSE i \in hits : \A j \in hits : i <= j

\* re.search(r"versionCode (\d+)", text), lines 69 and 72
OldCode(file) ==
    LET i == FirstCodeIndex(file.segs)
    IN  IF i = 0 THEN 0 ELSE file.segs[i].n

\* re.search(r'versionName "(.+?)"', text), lines 68 and 71
OldName(file) ==
    LET i == FirstNameIndex(file.segs)
    IN  IF i = 0 THEN <<"(", "u", "n", "k", "n", "o", "w", "n", ")">> ELSE file.segs[i].s

\* a new code that forgets the increment
NewCodeSame(file) == OldCode(file)

\* line 73
NewCode(file) == OldCode(file) + 1

\* re.sub on the whole text, lines 76-77: every match is replaced
RewriteGradle(file, version) ==
    GradleFile([i \in 1..Len(file.segs) |->
        IF NameMatches(file.segs[i]) THEN NameSeg(version)
        ELSE IF CodeMatches(file.segs[i]) THEN CodeSeg(NewCode(file))
        ELSE file.segs[i]])

(***************************************************************************)
(* bump-version.py: the inputs the model draws from                        *)
(***************************************************************************)
\* PACKAGE_FILES, lines 28-33: four paths, processed in list order
NumPackageFiles == 4
PACKAGE_FILES == 1..NumPackageFiles
\* BUILD_GRADLE, line 35, as a file id in `out` and `reads`
BUILD_GRADLE == NumPackageFiles + 1

V100 == <<"1", ".", "0", ".", "0">>
V101 == <<"1", ".", "0", ".", "1">>
V100NL == V100 \o <<"\n">>          \* accepted: `$` matches before a final newline
VShort == <<"1", ".", "0">>

ArgvSamples ==
    {<<>>, <<V100>>, <<V101>>, <<V100NL>>, <<VShort>>, <<V100, V101>>}

Quoted(s) == <<QUOTE>> \o s \o <<QUOTE>>
RawName == Quoted(<<"c", "o", "l", "o", "t", "a">>)
RawOld == Quoted(<<"0", ".", "9", ".", "0">>)
RawTrue == <<"t", "r", "u", "e">>
RawNull == <<"n", "u", "l", "l">>

\* two-space indentation, version between other keys
DocPretty ==
    TextFile(<<Line(<<>>, <<LBrace>>),
               Line(<<SP, SP>>, <<Member("name", RawName)>>),
               Line(<<SP, SP>>, <<Member("version", RawOld)>>),
               Line(<<SP, SP>>, <<Member("private", RawTrue)>>),
               Line(<<>>, <<RBrace>>)>>, TRUE)
\* tab indentation, no version key, a number written 1e0
DocTabs ==
    TextFile(<<Line(<<>>, <<LBrace>>),
               Line(<<TAB>>, <<Member("name", RawName)>>),
               Line(<<TAB>>, <<Member("weight", <<"1", "e", "0">>)>>),
               Line(<<>>, <<RBrace>>)>>, TRUE)
\* one line, no indented line, no final newline, a repeated key
DocCompact ==
    TextFile(<<Line(<<>>, <<LBrace, Member("private", RawTrue), Member("version", RawOld),
                            Member("private", RawNull), RBrace>>)>>, FALSE)
\* the closing brace is missing: json.loads raises JSONDecodeError
DocMalformed ==
    TextFile(<<Line(<<>>, <<LBrace>>),
               Line(<<SP, SP>>, <<Member("version", RawOld)>>)>>, TRUE)
\* valid JSON that is no object: pkg.get raises AttributeError
DocNull == TextFile(<<Line(<<>>, <<Scalar(RawNull)>>)>>, TRUE)

ManifestSamples == {NoFile, DocPretty, DocTabs, DocCompact, DocMalformed, DocNull}

OtherText == <<"a", "n", "d", "r", "o", "i", "d">>
\* two product flavors, each with its own literals
GradleFlavors ==
    GradleFile(<<CodeSeg(5), NameSeg(<<"0", ".", "9">>), TextSeg(OtherText),
                 CodeSeg(9), NameSeg(<<"0", ".", "8">>)>>)
\* versionCode and versionName are computed, not literal
GradleNoLiterals == GradleFile(<<TextSeg(OtherText)>>)

GradleSamples == {NoGradle, GradleFlavors, GradleNoLiterals}

(***************************************************************************)
(* sync-screenshots.py                                                     *)
(*                                                                         *)
(* A file name is <<stem, extension>>.  A directory is [exists, files],    *)
(* files mapping each name to the file's content, 0 when there is no such  *)
(* file.  The store directory maps position i to the content of i.png.     *)
(***************************************************************************)
MaxContent == 2
Contents == 1..MaxContent

\* lines 26-35
STORE_ORDER ==
    <<(<<"Dashboard", "png">>), (<<"LocationHistory", "png">>), (<<"TripDetails", "png">>),
      (<<"Trips", "png">>), (<<"Settings", "png">>), (<<"TrackingProfiles", "png">>),
      (<<"Authentication", "png">>), (<<"DarkMode", "png">>)>>

\* every name the source directory may hold, in the order of Python's sorted():
\* the table's names, a .png outside the table and a file that is no .png
SortedNames ==
    <<(<<"Authentication", "png">>), (<<"DarkMode", "png">>), (<<"Dashboard", "png">>),
      (<<"Extra", "png">>), (<<"LocationHistory", "png">>), (<<"Settings", "png">>),
      (<<"TrackingProfiles", "png">>), (<<"TripDetails", "png">>), (<<"Trips", "png">>),
      (<<"notes", "txt">>)>>
Names == Range(SortedNames)
Positions == 1..Len(STORE_ORDER)

NoDir(keys) == [exists |-> FALSE, files |-> [k \in keys |-> 0]]
Dir(files) == [exists |-> TRUE, files |-> files]

\* Path.is_file()
IsFile(dir, k) == dir.exists /\ dir.files[k] # 0

\* a listing of the names of the ordering table alone
GlobOrdered(dir) ==
    SelectSeq(SortedNames, LAMBDA n : n \in Range(STORE_ORDER) /\ IsFile(dir, n))

\* SRC.glob("*.png"), sorted: line 51
Glob(dir) == SelectSeq(SortedNames, LAMBDA n : n[2] = "png" /\ IsFile(dir, n))

\* filecmp.cmp(a, b, shallow=False): the bytes are equal
SameBytes(a, b) == a = b

\* shutil.copy2(src, dest): dest holds the bytes of src
Copy2(dir, k, content) == [dir EXCEPT !.files[k] = content]

\* lines 51-57, from the i-th globbed file on; st is [dir, out]
RECURSIVE DocsLoop(_, _, _)
DocsLoop(files, i, st) ==
    IF i > Len(files) THEN st
    ELSE LET name == files[i]
             content == srcDir.files[name]
         IN  IF IsFile(st.dir, name) /\ SameBytes(content, st.dir.files[name])
             THEN DocsLoop(files, i + 1,
                      [st EXCEPT !.out = Append(@, <<"unchanged", name, 0>>)])
             ELSE DocsLoop(files, i + 1,
                      [dir |-> Copy2(st.dir, name, content),
                       out |-> Append(st.out, <<"copied", name, 0>>)])

\* a destination numbered by the files copied so far, closing the gaps
StorePositionByCount(i, n) == n + 1

\* line 70: the destination of entry i is i.png
StorePosition(i, n) == i

\* lines 65-76, from entry i on; st is [dir, out, count]
RECURSIVE StoreLoop(_, _)
StoreLoop(i, st) ==
    IF i > Len(STORE_ORDER) THEN st
    ELSE LET name == STORE_ORDER[i]
             content == srcDir.files[name]
             dest == StorePosition(i, st.count)
         IN  IF ~IsFile(srcDir, name)
             THEN StoreLoop(i + 1, [st EXCEPT !.out = Append(@, <<"warning", name, i>>)])
             ELSE IF IsFile(st.dir, dest) /\ SameBytes(content, st.dir.files[dest])
             THEN StoreLoop(i + 1, [st EXCEPT !.out = Append(@, <<"unchanged", name, i>>)])
             ELSE StoreLoop(i + 1,
                      [dir |-> Copy2(st.dir, dest, content),
                       out |-> Append(st.out, <<"copied", name, i>>),
                       count |-> st.count + 1])

\* Path.mkdir(parents=True, exist_ok=True)
Mkdir(dir) == [dir EXCEPT !.exists = TRUE]

SrcSamples ==
    {NoDir(Names)} \cup
    UNION {{Dir([n \in Names |-> IF n \in S THEN f[n] ELSE 0]) : f \in [S -> Contents]} :
           S \in {T \in SUBSET Names : Cardinality(T) <= MaxSrcFiles}}

\* a destination that is missing, empty, or left by an earlier sync of other sources
DocsSamples ==
    {NoDir(Names), Dir([n \in Names |-> 0])} \cup
    {Dir([n \in Names |-> IF n[2] = "png" THEN c ELSE 0]) : c \in Contents}
StoreSamples ==
    {NoDir(Positions), Dir([i \in Positions |-> 0])} \cup
    {Dir([i \in Positions |-> c]) : c \in Contents}

(***************************************************************************)
(* bump-version.py: main(), lines 87-117                                   *)
(***************************************************************************)
Report(kind, file, oldName, oldCode, newCode) ==
    [kind |-> kind, file |-> file, oldName |-> oldName, oldCode |-> oldCode,
     newCode |-> newCode]

Exit(code, why) ==
    /\ pc' = "exited"
    /\ exitCode' = code
    /\ err' = why
    /\ bumps' = IF code = 0 THEN bumps + 1 ELSE bumps

\* lines 88-103, with the files processed first and the arguments checked last
CheckArgsLate ==
    /\ pc = "start"
    /\ IF Len(argv) # 1
       THEN Exit(1, "usage") /\ idx' = idx
       ELSE /\ pc' = "packages"
            /\ idx' = 1
            /\ UNCHANGED <<exitCode, err, bumps>>
    /\ UNCHANGED <<argv, pkgFiles, gradleFile, out, reads, pkg0, gradle0, gradleInit, runs>>
    /\ UNCHANGED syncVars

\* lines 88-103: the argument count, then the version format
CheckArgs ==
    /\ pc = "start"
    /\ IF Len(argv) # 1
       THEN Exit(1, "usage") /\ idx' = idx
       ELSE IF ~SemverMatch(argv[1])
       THEN Exit(1, "format") /\ idx' = idx
       ELSE /\ pc' = "packages"
            /\ idx' = 1
            /\ UNCHANGED <<exitCode, err, bumps>>
    /\ UNCHANGED <<argv, pkgFiles, gradleFile, out, reads, pkg0, gradle0, gradleInit, runs>>
    /\ UNCHANGED syncVars

\* the for loop advances, lines 106-107
NextPackage ==
    /\ idx' = idx + 1
    /\ pc' = IF idx = NumPackageFiles THEN "gradle" ELSE "packages"
    /\ UNCHANGED <<exitCode, err, bumps>>

\* an update that reports a parse error as a warning and goes on
UpdatePackageJsonLenient ==
    /\ pc = "packages"
    /\ LET file == pkgFiles[idx]
           version == argv[1]
       IN  IF ~file.exists
           THEN /\ out' = Append(out, Report("warning", idx, <<>>, 0, 0))
                /\ UNCHANGED <<pkgFiles, reads>>
                /\ NextPackage
           ELSE /\ reads' = reads \cup {idx}
                /\ IF JsonLoads(file).kind = "object"
                   THEN /\ pkgFiles' = [pkgFiles EXCEPT ![idx] = RewriteManifest(file, version)]
                        /\ out' = Append(out, Report("updated", idx, <<>>, 0, 0))
                        /\ NextPackage
                   ELSE /\ out' = Append(out, Report("warning", idx, <<>>, 0, 0))
                        /\ pkgFiles' = pkgFiles
                        /\ NextPackage
    /\ UNCHANGED <<argv, gradleFile, pkg0, gradle0, gradleInit, runs>>
    /\ UNCHANGED syncVars

\* an update that writes the version into a file it did not find
UpdatePackageJsonCreate ==
    /\ pc = "packages"
    /\ LET file == pkgFiles[idx]
           version == argv[1]
       IN  IF ~file.exists
           THEN /\ pkgFiles' = [pkgFiles EXCEPT
                                   ![idx] = JsonDumps(<<(<<"version", Str(version)>>)>>, 2)]
                /\ out' = Append(out, Report("warning", idx, <<>>, 0, 0))
                /\ reads' = reads
                /\ NextPackage
           ELSE /\ reads' = reads \cup {idx}
                /\ IF JsonLoads(file).kind = "object"
                   THEN /\ pkgFiles' = [pkgFiles EXCEPT ![idx] = RewriteManifest(file, version)]
                        /\ out' = Append(out, Report("updated", idx, <<>>, 0, 0))
                        /\ NextPackage
                   ELSE /\ Exit(1, "JSONDecodeError")
                        /\ UNCHANGED <<idx, pkgFiles, out>>
    /\ UNCHANGED <<argv, gradleFile, pkg0, gradle0, gradleInit, runs>>
    /\ UNCHANGED syncVars

\* one iteration of the loop at line 106: update_package_json, lines 38-57
UpdatePackageJson ==
    /\ pc = "packages"
    /\ LET file == pkgFiles[idx]
           version == argv[1]
           loaded == JsonLoads(file)
           old_version == IF DictHas(loaded.dict, "version")
                          THEN DictGet(loaded.dict, "version").s
                          ELSE <<"(", "n", "o", "n", "e", ")">>
       IN  IF ~file.exists
           THEN /\ out' = Append(out, Report("warning", idx, <<>>, 0, 0))
                /\ UNCHANGED <<pkgFiles, reads>>
                /\ NextPackage
           ELSE /\ reads' = reads \cup {idx}
                /\ IF loaded.kind = "error"
                   THEN \* line 44 raises; the traceback ends the process with status 1
                        /\ Exit(1, "JSONDecodeError")
                        /\ UNCHANGED <<idx, pkgFiles, out>>
                   ELSE IF loaded.kind = "other"
                   THEN \* line 45 raises: the value has no get()
                        /\ Exit(1, "AttributeError")
                        /\ UNCHANGED <<idx, pkgFiles, out>>
                   ELSE /\ pkgFiles' = [pkgFiles EXCEPT ![idx] = RewriteManifest(file, version)]
                        /\ out' = Append(out, Report("updated", idx, old_version, 0, 0))
                        /\ NextPackage
    /\ UNCHANGED <<argv, gradleFile, pkg0, gradle0, gradleInit, runs>>
    /\ UNCHANGED syncVars

\* line 111 to the end of main(): update_build_gradle, lines 60-84
UpdateBuildGradle ==
    /\ pc = "gradle"
    /\ LET version == argv[1]
       IN  IF ~gradleFile.exists
           THEN /\ out' = Append(out, Report("warning", BUILD_GRADLE, <<>>, 0, 0))
                /\ UNCHANGED <<gradleFile, reads>>
           ELSE /\ reads' = reads \cup {BUILD_GRADLE}
                /\ gradleFile' = RewriteGradle(gradleFile, version)
                /\ out' = Append(out, Report("updated", BUILD_GRADLE, OldName(gradleFile),
                                             OldCode(gradleFile), NewCode(gradleFile)))
    /\ Exit(0, "none")
    /\ UNCHANGED <<argv, idx, pkgFiles, pkg0, gradle0, gradleInit, runs>>
    /\ UNCHANGED syncVars

\* the script is run again, on the files the last run left
Invoke ==
    /\ pc = "exited"
    /\ runs < MaxRuns
    /\ argv' \in ArgvSamples
    /\ pc' = "start"
    /\ idx' = 0
    /\ exitCode' = -1
    /\ err' = "none"
    /\ out' = <<>>
    /\ reads' = {}
    /\ pkg0' = pkgFiles
    /\ gradle0' = gradleFile
    /\ runs' = runs + 1
    /\ UNCHANGED <<pkgFiles, gradleFile, gradleInit, bumps>>
    /\ UNCHANGED syncVars

BumpIdle ==
    /\ argv = <<>>
    /\ pc = "exited"
    /\ idx = 0
    /\ pkgFiles = [f \in PACKAGE_FILES |-> NoFile]
    /\ gradleFile = NoGradle
    /\ exitCode = 0
    /\ err = "none"
    /\ out = <<>>
    /\ reads = {}
    /\ pkg0 = pkgFiles
    /\ gradle0 = gradleFile
    /\ gradleInit = gradleFile
    /\ runs = MaxRuns
    /\ bumps = 0

BumpInit ==
    /\ argv \in ArgvSamples
    /\ pc = "start"
    /\ idx = 0
    /\ pkgFiles \in [PACKAGE_FILES -> ManifestSamples]
    /\ gradleFile \in GradleSamples
    /\ exitCode = -1
    /\ err = "none"
    /\ out = <<>>
    /\ reads = {}
    /\ pkg0 = pkgFiles
    /\ gradle0 = gradleFile
    /\ gradleInit = gradleFile
    /\ runs = 1
    /\ bumps = 0

(***************************************************************************)
(* sync-screenshots.py: main(), lines 37-81                                *)
(***************************************************************************)
\* lines 38-48 with the docs directory made before the source is checked
CheckSourceLate ==
    /\ spc = "check"
    /\ docsDir' = Mkdir(docsDir)
    /\ IF ~srcDir.exists
       THEN spc' = "exited" /\ sExit' = 1
       ELSE spc' = "docs" /\ sExit' = sExit
    /\ UNCHANGED <<srcDir, storeDir, sOut, count, sRuns, docs0, store0>>
    /\ UNCHANGED bumpVars

\* lines 38-45
CheckSource ==
    /\ spc = "check"
    /\ IF ~srcDir.exists
       THEN spc' = "exited" /\ sExit' = 1
       ELSE spc' = "docs" /\ sExit' = sExit
    /\ UNCHANGED <<srcDir, docsDir, storeDir, sOut, count, sRuns, docs0, store0>>
    /\ UNCHANGED bumpVars

\* lines 48-57
SyncDocs ==
    /\ spc = "docs"
    /\ LET st == DocsLoop(Glob(srcDir), 1, [dir |-> Mkdir(docsDir), out |-> sOut])
       IN  docsDir' = st.dir /\ sOut' = st.out
    /\ spc' = "store"
    /\ UNCHANGED <<srcDir, storeDir, sExit, count, sRuns, docs0, store0>>
    /\ UNCHANGED bumpVars

\* lines 61-81
SyncStore ==
    /\ spc = "store"
    /\ LET st == StoreLoop(1, [dir |-> Mkdir(storeDir), out |-> sOut, count |-> 0])
       IN  storeDir' = st.dir /\ sOut' = st.out /\ count' = st.count
    /\ spc' = "exited"
    /\ sExit' = 0
    /\ UNCHANGED <<srcDir, docsDir, sRuns, docs0, store0>>
    /\ UNCHANGED bumpVars

\* the script is run again on an unchanged source directory
SyncInvoke ==
    /\ spc = "exited"
    /\ sRuns < MaxSyncRuns
    /\ spc' = "check"
    /\ sExit' = -1
    /\ sOut' = <<>>
    /\ count' = 0
    /\ sRuns' = sRuns + 1
    /\ docs0' = docsDir
    /\ store0' = storeDir
    /\ UNCHANGED <<srcDir, docsDir, storeDir>>
    /\ UNCHANGED bumpVars

SyncIdle ==
    /\ spc = "exited"
    /\ srcDir = NoDir(Names)
    /\ docsDir = NoDir(Names)
    /\ storeDir = NoDir(Positions)
    /\ sExit = 0
    /\ sOut = <<>>
    /\ count = 0
    /\ sRuns = MaxSyncRuns
    /\ docs0 = docsDir
    /\ store0 = storeDir

SyncInit ==
    /\ spc = "check"
    /\ srcDir \in SrcSamples
    /\ docsDir \in DocsSamples
    /\ storeDir \in StoreSamples
    /\ sExit = -1
    /\ sOut = <<>>
    /\ count = 0
    /\ sRuns = 1
    /\ docs0 = docsDir
    /\ store0 = storeDir

(***************************************************************************)
(* Specifications                                                          *)
(***************************************************************************)
Init == BumpInit /\ SyncIdle
Next == CheckArgs \/ UpdatePackageJson \/ UpdateBuildGradle \/ Invoke
Spec == Init /\ [][Next]_vars

SyncStart == BumpIdle /\ SyncInit
SyncNext == CheckSource \/ SyncDocs \/ SyncStore \/ SyncInvoke
SyncSpec == SyncStart /\ [][SyncNext]_vars

(***************************************************************************)
(* Properties of bump-version.py, checked under Spec                       *)
(***************************************************************************)
Ended == pc = "exited"
Succeeded == pc = "exited" /\ exitCode = 0

\* x.y.z written out: digits, a dot, digits, a dot, digits
IsXYZ(s) ==
    \E i, j \in 1..Len(s) :
        /\ 1 < i /\ i + 1 < j /\ j < Len(s)
        /\ \A k \in 1..Len(s) : IF k \in {i, j} THEN s[k] = "." ELSE s[k] \in Digits
\* the pattern of line 95 as Python reads it: x.y.z, or x.y.z and a final newline
PatternMatches(s) ==
    \/ IsXYZ(s)
    \/ Len(s) > 0 /\ s[Len(s)] = "\n" /\ IsXYZ(SubSeq(s, 1, Len(s) - 1))
ArgsAccepted == Len(argv) = 1 /\ PatternMatches(argv[1])

Others(d) == SelectSeq(d, LAMBDA e : e[1] # "version")
IsObject(file) == JsonLoads(file).kind = "object"
VersionOf(file) == DictGet(JsonLoads(file).dict, "version")
Reported(kind, f) == \E i \in 1..Len(out) : out[i].kind = kind /\ out[i].file = f

\* C1: a run whose arguments are not exactly one version matching the pattern
\* ends with exit code 1 as soon as the arguments are checked, having read,
\* written and reported on no file: every manifest and the build config are
\* as they were before the run.
C1_InvalidVersionTouchesNothing ==
    (pc # "start" /\ ~ArgsAccepted) =>
        /\ pc = "exited" /\ exitCode = 1 /\ err \in {"usage", "format"}
        /\ pkgFiles = pkg0 /\ gradleFile = gradle0
        /\ reads = {} /\ out = <<>>

C1_Witness ==
    /\ Ended /\ exitCode = 1 /\ argv = <<VShort>>
    /\ pkg0[1] = DocPretty /\ gradle0 = GradleFlavors

\* The build config's versionCode and versionName as the script reads them
CodeOf(file) == OldCode(file)
HasCode(file) == \E i \in 1..Len(file.segs) : file.segs[i].t = "versionCode"
HasName(file) == \E i \in 1..Len(file.segs) : file.segs[i].t = "versionName"
NameOf(file) ==
    file.segs[CHOOSE i \in 1..Len(file.segs) :
                 /\ file.segs[i].t = "versionName"
                 /\ \A j \in 1..(i - 1) : file.segs[j].t # "versionName"].s

\* C2 as stated: after a successful bump of an existing build config its
\* versionCode is the pre-run value + 1 and its versionName the supplied version.
C2_AsStated ==
    (Succeeded /\ gradle0.exists) =>
        /\ CodeOf(gradleFile) = CodeOf(gradle0) + 1
        /\ HasName(gradleFile) /\ NameOf(gradleFile) = argv[1]

\* C2 amended: after a successful bump of an existing build config, every
\* versionCode literal holds the pre-run value of the first one + 1 and every
\* one-line versionName literal holds the supplied version, nothing else
\* changes and no literal is added; a build config that holds a versionCode
\* literal therefore reads initial + k after k successful bumps.
C2_BuildConfigBumped ==
    /\ (Succeeded /\ gradle0.exists) =>
          /\ gradleFile.exists /\ Len(gradleFile.segs) = Len(gradle0.segs)
          /\ \A i \in 1..Len(gradle0.segs) :
                gradleFile.segs[i] =
                    IF CodeMatches(gradle0.segs[i]) THEN CodeSeg(CodeOf(gradle0) + 1)
                    ELSE IF NameMatches(gradle0.segs[i]) THEN NameSeg(argv[1])
                    ELSE gradle0.segs[i]
    /\ (gradleInit.exists /\ HasCode(gradleInit)) =>
          CodeOf(gradleFile) = CodeOf(gradleInit) + bumps

C2_Witness ==
    /\ Succeeded /\ bumps = 2 /\ gradleInit = GradleFlavors
    /\ CodeOf(gradleFile) = CodeOf(gradleInit) + 2
    /\ NameOf(gradleFile) = V101

\* C3: after a successful bump, every manifest that existed parses to an
\* object whose version is the supplied version, and whose other keys are the
\* keys of the document before the run, in the same order with the same values.
C3_ManifestsVersionedRestKept ==
    Succeeded =>
        \A f \in PACKAGE_FILES :
            pkg0[f].exists =>
                /\ IsObject(pkgFiles[f])
                /\ DictHas(JsonLoads(pkgFiles[f]).dict, "version")
                /\ VersionOf(pkgFiles[f]) = Str(argv[1])
                /\ Others(JsonLoads(pkgFiles[f]).dict) = Others(JsonLoads(pkg0[f]).dict)

C3_Witness ==
    /\ Succeeded
    /\ pkg0[1] = DocPretty /\ pkg0[2] = DocCompact /\ pkg0[3] = DocTabs
    /\ argv = <<V100NL>>

\* the first manifest in list order that exists and does not parse to an object
FirstBad ==
    LET bad == {f \in PACKAGE_FILES : pkg0[f].exists /\ ~IsObject(pkg0[f])}
    IN  IF bad = {} THEN 0 ELSE CHOOSE f \in bad : \A g \in bad : f <= g

\* C4: when the first manifest that fails is malformed JSON, an accepted run
\* halts there with a parse error and exit code 1: the manifests before it
\* that exist carry the new version, and the malformed one, every later one
\* and the build config are as before the run.
C4_MalformedHaltsNoRollback ==
    (Ended /\ ArgsAccepted /\ FirstBad # 0 /\ JsonLoads(pkg0[FirstBad]).kind = "error") =>
        /\ exitCode = 1 /\ err = "JSONDecodeError" /\ idx = FirstBad
        /\ \A f \in PACKAGE_FILES :
              IF f < FirstBad
              THEN pkg0[f].exists =>
                      /\ Reported("updated", f)
                      /\ VersionOf(pkgFiles[f]) = Str(argv[1])
              ELSE pkgFiles[f] = pkg0[f]
        /\ gradleFile = gradle0
        /\ BUILD_GRADLE \notin reads
        /\ \A f \in PACKAGE_FILES : f > FirstBad => f \notin reads

C4_Witness ==
    /\ Ended /\ err = "JSONDecodeError" /\ idx = 3
    /\ pkg0[1] = DocPretty /\ pkg0[2] = DocTabs /\ pkg0[4] = DocCompact
    /\ gradle0 = GradleFlavors

FilesReported == [i \in 1..Len(out) |-> out[i].file]

\* C5 as stated: with an accepted version and every present manifest
\* well-formed JSON, the run ends with exit code 0.
C5_AsStated ==
    (Ended /\ ArgsAccepted
        /\ \A f \in PACKAGE_FILES : pkg0[f].exists => JsonLoads(pkg0[f]).kind # "error") =>
        exitCode = 0

\* C5 amended: with an accepted version and every present manifest a
\* well-formed JSON object, the run ends with exit code 0 having reported on
\* the four manifests and the build config in list order: an absent file got
\* a warning and is still absent, a present one was rewritten.
C5_AbsentFilesSkipped ==
    (Ended /\ ArgsAccepted /\ \A f \in PACKAGE_FILES : pkg0[f].exists => IsObject(pkg0[f])) =>
        /\ exitCode = 0
        /\ FilesReported = [i \in 1..BUILD_GRADLE |-> i]
        /\ \A f \in PACKAGE_FILES :
              IF pkg0[f].exists
              THEN Reported("updated", f) /\ VersionOf(pkgFiles[f]) = Str(argv[1])
              ELSE Reported("warning", f) /\ pkgFiles[f] = NoFile
        /\ IF gradle0.exists
           THEN Reported("updated", BUILD_GRADLE) /\ gradleFile.exists
           ELSE Reported("warning", BUILD_GRADLE) /\ gradleFile = NoGradle

C5_Witness ==
    /\ Succeeded
    /\ ~pkg0[1].exists /\ pkg0[2].exists /\ ~pkg0[3].exists /\ pkg0[4].exists
    /\ ~gradle0.exists

\* the indentation of a written manifest: the leading whitespace of its
\* first indented line
IndentUnit(file) ==
    LET hits == {i \in 1..Len(file.lines) : Len(file.lines[i].lead) > 0}
    IN  IF hits = {} THEN <<>>
        ELSE file.lines[CHOOSE i \in hits : \A j \in hits : i <= j].lead

\* C10: a manifest rewritten in this run is indented by the first leading
\* whitespace run of its original text (two spaces when the original has no
\* indented line) and ends with a newline.
C10_IndentPreserved ==
    \A f \in PACKAGE_FILES :
        Reported("updated", f) =>
            /\ IndentUnit(pkgFiles[f]) =
                  (IF IndentUnit(pkg0[f]) = <<>> THEN <<SP, SP>> ELSE IndentUnit(pkg0[f]))
            /\ pkgFiles[f].nl

(***************************************************************************)
(* Properties of sync-screenshots.py, checked under SyncSpec               *)
(***************************************************************************)
SyncSucceeded == spc = "exited" /\ sExit = 0
Printed(kind, name, i) == \E j \in 1..Len(sOut) : sOut[j] = <<kind, name, i>>

\* C6: after a sync, i.png in the store directory holds the bytes of the
\* source file named at position i of the ordering table when that file
\* exists; when it does not, a warning was printed and i.png is as it was
\* before the run (present or absent).
C6_StoreNumberedByPosition ==
    SyncSucceeded =>
        /\ storeDir.exists
        /\ \A i \in Positions :
              IF IsFile(srcDir, STORE_ORDER[i])
              THEN storeDir.files[i] = srcDir.files[STORE_ORDER[i]]
              ELSE /\ storeDir.files[i] = store0.files[i]
                   /\ Printed("warning", STORE_ORDER[i], i)

C6_Witness ==
    /\ SyncSucceeded
    /\ \E i, j \in Positions :
          /\ i < j
          /\ ~IsFile(srcDir, STORE_ORDER[i]) /\ IsFile(srcDir, STORE_ORDER[j])
          /\ store0.files[i] # 0
          /\ store0.files[j] # srcDir.files[STORE_ORDER[j]]

\* C7: after a sync, the docs directory holds, for every .png file of the
\* source directory, a file of the same name with the same bytes.
C7_DocsHoldEveryPng ==
    SyncSucceeded =>
        /\ docsDir.exists
        /\ \A n \in Names :
              (n[2] = "png" /\ IsFile(srcDir, n)) => docsDir.files[n] = srcDir.files[n]

C7_Witness ==
    /\ SyncSucceeded
    /\ \E n, m \in Names :
          /\ n \notin Range(STORE_ORDER) /\ n[2] = "png" /\ m # n
          /\ IsFile(srcDir, n) /\ IsFile(srcDir, m) /\ m[2] = "png"
          /\ docs0.files[n] # 0 /\ docs0.files[n] # srcDir.files[n]
          /\ docs0.files[m] = srcDir.files[m]

\* C8: a sync whose source directory is missing ends with exit code 1 at the
\* source check: both destinations are as before, no directory made, no file
\* copied, nothing printed about a file.
C8_MissingSourceCreatesNothing ==
    (~srcDir.exists /\ spc # "check") =>
        /\ spc = "exited" /\ sExit = 1
        /\ docsDir = docs0 /\ storeDir = store0
        /\ sOut = <<>>

C8_Witness ==
    /\ spc = "exited" /\ sExit = 1
    /\ ~docsDir.exists /\ ~storeDir.exists

\* C9: a sync run right after a sync, on the same source directory, leaves
\* both destination directories as the first run left them, at every step.
C9_SecondSyncChangesNothing ==
    sRuns >= 2 => (docsDir = docs0 /\ storeDir = store0)

C9_Witness ==
    /\ sRuns >= 2 /\ SyncSucceeded
    /\ \E n, m \in Range(STORE_ORDER) :
          /\ IsFile(srcDir, n) /\ IsFile(srcDir, m)
          /\ srcDir.files[n] # srcDir.files[m]

====
